---- MODULE Spec2Model ----
(***************************************************************************)
(* Model of apps/desktop/scripts/resize-dmg-bg.py: a straight-line script  *)
(* that opens the DMG background image, prints its size and DPI, resizes   *)
(* it to 590x380, saves it in place with dpi=(72, 72) and prints a         *)
(* confirmation.  Every statement either completes or raises; an          *)
(* unhandled exception ends the process.  The script may be run again on   *)
(* the file it left behind.                                                *)
(***************************************************************************)
EXTENDS Integers, Sequences, FiniteSets, TLC

VARIABLES
    fs,        \* the filesystem: path -> file
    before,    \* the filesystem as it was when the current run started
    pc,        \* the statement the process executes next, "done" or "failed"
    img,       \* the module-level variable img
    stdout,    \* the lines the current run has written to standard output
    exitCode,  \* exit status of the current run; -1 while it is running
    failedAt,  \* the statement that raised, "none" if none did
    trace,     \* the statements of the current run that completed, in order
    accessed,  \* the paths the current run has opened
    runs,      \* how many times the script has been started
    prevDone   \* whether the previous run completed successfully

vars == <<fs, before, pc, img, stdout, exitCode, failedAt, trace, accessed,
          runs, prevDone>>

---------------------------------------------------------------------------
(* Bounds of the model *)

MaxSmall == 2      \* small input widths and heights 1..MaxSmall
MaxScale == 2      \* input widths 590*k and heights 380*k, k in 1..MaxScale
MaxDpiScale == 2   \* input DPI values 72*k, k in 1..MaxDpiScale
MaxRuns == 3       \* the script is started at most MaxRuns times

---------------------------------------------------------------------------
(* Constants of the script *)

\* src = "apps/desktop/build/dmg-background.png"
Src == "apps/desktop/build/dmg-background.png"

TargetW == 590
TargetH == 380
TargetSize == <<TargetW, TargetH>>

Dpi72 == 72
TargetDpi == <<Dpi72, Dpi72>>

\* Image.open(src): the one path that is opened for reading
OpenPath == Src

\* some other file of the build directory, which the script never names
OtherPath == "apps/desktop/build/icon.icns"

SavePathOther == OtherPath

\* img.save(src, ...): the one path that is written
SavePath == Src

Paths == {Src, OtherPath}

---------------------------------------------------------------------------
(* Files and images *)

None == <<>>    \* Python's None, the value of info.get('dpi') without a DPI

Absent == [kind |-> "absent", size |-> <<0, 0>>, dpi |-> None, data |-> "none"]
\* bytes no decoder identifies (also a file cut off inside its header)
Corrupt == [kind |-> "corrupt", size |-> <<0, 0>>, dpi |-> None, data |-> "none"]

Widths == (1..MaxSmall) \cup {TargetW * k : k \in 1..MaxScale}
Heights == (1..MaxSmall) \cup {TargetH * k : k \in 1..MaxScale}
DpiValues == {Dpi72 * k : k \in 1..MaxDpiScale}
Dpis == {None} \cup (DpiValues \X DpiValues)

\* an image file: the header gives size and DPI; data is "ok" when the pixel
\* data decodes and "bad" when it is damaged or cut off
ImageFile(size, dpi, data) ==
    [kind |-> "image", size |-> size, dpi |-> dpi, data |-> data]

InputFiles ==
    {Absent, Corrupt} \cup
    {ImageFile(<<w, h>>, d, x) : w \in Widths, h \in Heights, d \in Dpis,
                                 x \in {"ok", "bad"}}

NoImage == [size |-> <<0, 0>>, dpi |-> None, loaded |-> FALSE]

CanDecodeAnything(f) == TRUE

\* Image.open identifies the file from its header; a missing file raises
\* FileNotFoundError, unidentifiable bytes raise UnidentifiedImageError
CanDecode(f) == f.kind = "image"

\* Image.open(src): size and info come from the header, pixel data is not read
ImageOpen(f) == [size |-> f.size, dpi |-> f.dpi, loaded |-> FALSE]

BeforeLineSwapped(im) == <<"Before: ", <<im.size[2], im.size[1]>>, ", DPI: ", im.dpi>>

\* f"Before: {img.size}, DPI: {img.info.get('dpi')}"
BeforeLine(im) == <<"Before: ", im.size, ", DPI: ", im.dpi>>

\* f"After:  (590, 380), DPI: (72, 72)": a literal
AfterLine == <<"After:  ", <<590, 380>>, ", DPI: ", <<72, 72>>>>

Max(a, b) == IF a >= b THEN a ELSE b

\* a resize that fits the image into the target box keeping its aspect ratio
ResizedKeepAspect(im) ==
    LET w == im.size[1]
        h == im.size[2]
        byWidth == w * TargetH >= h * TargetW
    IN [size |-> IF byWidth THEN <<TargetW, Max(1, (h * TargetW) \div w)>>
                           ELSE <<Max(1, (w * TargetH) \div h), TargetH>>,
        dpi |-> im.dpi, loaded |-> TRUE]

\* a resize relative to the current size
ResizedHalf(im) ==
    [size |-> <<Max(1, im.size[1] \div 2), Max(1, im.size[2] \div 2)>>,
     dpi |-> im.dpi, loaded |-> TRUE]

\* img.resize((590, 380), Image.LANCZOS): a new image of exactly the requested
\* size whatever the source size; info (with its dpi) is copied
Resized(im) == [size |-> TargetSize, dpi |-> im.dpi, loaded |-> TRUE]

EncodedKeepDpi(im) == ImageFile(im.size, im.dpi, "ok")

\* img.save(src, dpi=(72, 72)): the file written by a save that completes
Encoded(im) == ImageFile(im.size, TargetDpi, "ok")

\* What a save that raises can leave at the path.  The file was opened
\* earlier in the run, so it exists: the writer either fails to open it
\* (file untouched) or opens it truncating and stops part-way, leaving no
\* identifiable image or a header followed by incomplete pixel data.
FailedSaveOutcomes(f, im) ==
    {f, Corrupt, ImageFile(im.size, TargetDpi, "bad")}

---------------------------------------------------------------------------
(* Control flow *)

Steps == <<"open", "printBefore", "resize", "save", "printAfter">>

NextStepPrintFirst(s) ==
    CASE s = "open" -> "printBefore"
      [] s = "printBefore" -> "resize"
      [] s = "resize" -> "printAfter"
      [] s = "printAfter" -> "save"
      [] s = "save" -> "done"

NextStepSaveFirst(s) ==
    CASE s = "open" -> "save"
      [] s = "save" -> "printBefore"
      [] s = "printBefore" -> "resize"
      [] s = "resize" -> "printAfter"
      [] s = "printAfter" -> "done"

\* the statements run top to bottom: lines 6, 7, 9, 10, 11, then the end
NextStep(s) ==
    CASE s = "open" -> "printBefore"
      [] s = "printBefore" -> "resize"
      [] s = "resize" -> "save"
      [] s = "save" -> "printAfter"
      [] s = "printAfter" -> "done"

ExitStatusAlwaysZero(ok) == 0

\* the interpreter exits 0 at the end of the script and 1 on an unhandled
\* exception
ExitStatus(ok) == IF ok THEN 0 ELSE 1

\* the statement s completed
Advance(s) ==
    /\ pc' = NextStep(s)
    /\ trace' = Append(trace, s)
    /\ exitCode' = IF NextStep(s) = "done" THEN ExitStatus(TRUE) ELSE exitCode
    /\ UNCHANGED failedAt

\* an exception swallowed: the script carries on with the next statement
RaiseAndContinue(s) ==
    /\ pc' = NextStep(s)
    /\ failedAt' = s
    /\ exitCode' = IF NextStep(s) = "done" THEN ExitStatus(TRUE) ELSE exitCode
    /\ UNCHANGED trace

\* the statement s raised: nothing catches it, the process ends there
Raise(s) ==
    /\ pc' = "failed"
    /\ failedAt' = s
    /\ exitCode' = ExitStatus(FALSE)
    /\ UNCHANGED trace

Terminated == pc \in {"done", "failed"}

---------------------------------------------------------------------------
(* The run *)

Init ==
    /\ fs \in [Paths -> InputFiles]
    /\ fs[OtherPath] \in {Absent, ImageFile(<<1, 1>>, None, "ok")}
    /\ before = fs
    /\ pc = "open"
    /\ img = NoImage
    /\ stdout = <<>>
    /\ exitCode = -1
    /\ failedAt = "none"
    /\ trace = <<>>
    /\ accessed = {}
    /\ runs = 1
    /\ prevDone = FALSE

\* line 6: img = Image.open(src)
Open ==
    /\ pc = "open"
    /\ accessed' = accessed \cup {OpenPath}
    /\ \/ /\ CanDecode(fs[OpenPath])
          /\ img' = ImageOpen(fs[OpenPath])
          /\ Advance("open")
       \/ \* missing or unidentifiable, or present but unreadable
          /\ Raise("open")
          /\ UNCHANGED img
    /\ UNCHANGED <<fs, before, stdout, runs, prevDone>>

\* line 7: print(f"Before: ...")
PrintBefore ==
    /\ pc = "printBefore"
    /\ \/ /\ stdout' = Append(stdout, BeforeLine(img))
          /\ Advance("printBefore")
       \/ \* the write to standard output fails
          /\ Raise("printBefore")
          /\ UNCHANGED stdout
    /\ UNCHANGED <<fs, before, img, accessed, runs, prevDone>>

\* line 9: img = img.resize((590, 380), Image.LANCZOS)
Resize ==
    /\ pc = "resize"
    /\ \/ \* resize loads the pixel data, which must decode
          /\ img.loaded \/ fs[OpenPath].data = "ok"
          /\ img' = Resized(img)
          /\ Advance("resize")
       \/ \* damaged pixel data, or out of memory
          /\ Raise("resize")
          /\ UNCHANGED img
    /\ UNCHANGED <<fs, before, stdout, accessed, runs, prevDone>>

\* line 10: img.save(src, dpi=(72, 72))
Save ==
    /\ pc = "save"
    /\ accessed' = accessed \cup {SavePath}
    /\ \/ /\ fs' = [fs EXCEPT ![SavePath] = Encoded(img)]
          /\ Advance("save")
       \/ \* permission denied, disk full, mode the encoder cannot write
          /\ \E f \in FailedSaveOutcomes(fs[SavePath], img) :
                 fs' = [fs EXCEPT ![SavePath] = f]
          /\ Raise("save")
    /\ UNCHANGED <<before, img, stdout, runs, prevDone>>

\* line 11: print(f"After:  (590, 380), DPI: (72, 72)")
PrintAfter ==
    /\ pc = "printAfter"
    /\ \/ /\ stdout' = Append(stdout, AfterLine)
          /\ Advance("printAfter")
       \/ /\ Raise("printAfter")
          /\ UNCHANGED stdout
    /\ UNCHANGED <<fs, before, img, accessed, runs, prevDone>>

\* the script is started again on the filesystem the last run left
Rerun ==
    /\ Terminated
    /\ runs < MaxRuns
    /\ runs' = runs + 1
    /\ prevDone' = (pc = "done")
    /\ before' = fs
    /\ pc' = "open"
    /\ img' = NoImage
    /\ stdout' = <<>>
    /\ exitCode' = -1
    /\ failedAt' = "none"
    /\ trace' = <<>>
    /\ accessed' = {}
    /\ UNCHANGED fs

Step == Open \/ PrintBefore \/ Resize \/ Save \/ PrintAfter

Next == Open \/ PrintBefore \/ Resize \/ Save \/ PrintAfter \/ Rerun

Spec == Init /\ [][Next]_vars

\* a started process keeps executing: no statement blocks forever
FairSpec == Spec /\ WF_vars(Step)

---------------------------------------------------------------------------
(* Properties *)

Range(q) == {q[i] : i \in 1..Len(q)}

IsPrefix(p, q) == Len(p) <= Len(q) /\ \A i \in 1..Len(p) : p[i] = q[i]

Printed(line) == \E i \in 1..Len(stdout) : stdout[i] = line

\* size and DPI of a file
Attr(f) == <<f.size, f.dpi>>

\* C1: after a run that completes successfully the file at the fixed path is
\* a valid image exactly 590 wide and 380 tall, whatever the size and aspect
\* ratio of the input
C1_OutputSize ==
    pc = "done" =>
        /\ fs[Src].kind = "image"
        /\ fs[Src].data = "ok"
        /\ fs[Src].size = <<590, 380>>

\* a successful run on an input whose aspect ratio is not 590:380
C1_Witness ==
    /\ pc = "done"
    /\ before[Src].size[1] * 380 # before[Src].size[2] * 590
    /\ fs[Src].size = <<590, 380>>

\* C2: after a run that completes successfully the DPI of the file at the
\* fixed path is (72, 72), whatever DPI the source carried
C2_OutputDpi == pc = "done" => fs[Src].dpi = <<72, 72>>

\* a successful run on an input that carried another DPI
C2_Witness ==
    /\ pc = "done"
    /\ before[Src].dpi # None
    /\ before[Src].dpi # <<72, 72>>
    /\ fs[Src].dpi = <<72, 72>>

\* C3: a successful run that follows a successful run starts from a file of
\* size (590, 380) and DPI (72, 72) and leaves a file with the same size and
\* DPI
C3_FixedPoint ==
    (pc = "done" /\ prevDone) =>
        /\ Attr(before[Src]) = <<<<590, 380>>, <<72, 72>>>>
        /\ Attr(fs[Src]) = Attr(before[Src])

\* two successful runs in a row
C3_Witness == pc = "done" /\ prevDone /\ runs >= 2

\* C4: when the file does not exist at the start of the run, the run gets no
\* further than the open, which raises; the path is not created and nothing
\* is printed
C4_MissingInput ==
    before[Src] = Absent =>
        /\ pc \in {"open", "failed"}
        /\ pc = "failed" => (failedAt = "open" /\ exitCode # 0)
        /\ fs = before
        /\ stdout = <<>>

\* a run on a missing file has ended
C4_Witness == before[Src] = Absent /\ pc = "failed" /\ failedAt = "open"

\* C5: whatever the run does and however it ends, it opens no path but the
\* fixed one and every other file is as it was when the run started
C5_SingleFile ==
    /\ accessed \subseteq {Src}
    /\ \A p \in Paths \ {Src} : fs[p] = before[p]

\* a run has rewritten the file at the fixed path while another file exists
C5_Witness ==
    /\ Terminated
    /\ fs[Src] # before[Src]
    /\ fs[OtherPath].kind = "image"
    /\ accessed = {Src}

\* C6: the first line printed is the Before line with the size and the DPI
\* of the file as it was before the run, None when it carried no DPI
C6_BeforeLine ==
    Len(stdout) >= 1 =>
        stdout[1] = <<"Before: ", before[Src].size, ", DPI: ", before[Src].dpi>>

\* a run on a source without DPI, not square, has printed None and completed
C6_Witness ==
    /\ pc = "done"
    /\ before[Src].dpi = None
    /\ before[Src].size[1] # before[Src].size[2]
    /\ stdout[1][4] = None

\* C7 as stated: the exit status is 0 exactly when decode, resize and
\* encode/write succeeded
C7_Original ==
    Terminated => (exitCode = 0 <=> {"open", "resize", "save"} \subseteq Range(trace))

\* what holds of a run that has ended
C7_ExitInv ==
    Terminated =>
        /\ exitCode = 0 <=> Range(trace) = Range(Steps)
        /\ exitCode = 0 <=> failedAt = "none"
        /\ failedAt # "none" =>
              /\ pc = "failed"
              /\ exitCode # 0
              /\ IsPrefix(trace, Steps)
              /\ Steps[Len(trace) + 1] = failedAt

\* C7 amended: every run terminates, and its exit status is 0 exactly when all
\* five statements (open, print Before, resize, save, print After) completed;
\* a statement that raises ends the run there with a non-zero status and no
\* later statement executed
C7_Exit == [](C7_ExitInv) /\ (~Terminated ~> Terminated)

\* a run in which decode, resize and save succeeded and the last print raised
C7_Witness ==
    /\ pc = "failed"
    /\ failedAt = "printAfter"
    /\ exitCode # 0
    /\ {"open", "resize", "save"} \subseteq Range(trace)

\* C8: the statements complete in the order open, print Before, resize, save,
\* print After, each at most once; a successful run has printed exactly the
\* Before line then the After line; whenever the After line has been printed
\* the file on disk is a 590x380 image with DPI (72, 72); a run that aborted
\* has not printed the After line
C8_Order ==
    /\ IsPrefix(trace, Steps)
    /\ pc = "done" =>
          /\ Len(stdout) = 2
          /\ stdout[1][1] = "Before: "
          /\ stdout[2] = AfterLine
    /\ Printed(AfterLine) =>
          /\ "save" \in Range(trace)
          /\ fs[Src] = ImageFile(<<590, 380>>, <<72, 72>>, "ok")
    /\ pc = "failed" => ~Printed(AfterLine)

\* a successful run on a file that was not yet 590x380 has printed both lines
C8_Witness ==
    /\ pc = "done"
    /\ Len(stdout) = 2
    /\ before[Src].size # <<590, 380>>

\* C9: a save that raises ends the run at once with a non-zero status: the
\* After line is not printed, no later statement runs and no backup file
\* appears.  (That the file may then hold neither the original nor a valid
\* 590x380 image is the reachable state C9_Witness.)
C9_SaveFailure ==
    failedAt = "save" =>
        /\ pc = "failed"
        /\ exitCode # 0
        /\ trace = <<"open", "printBefore", "resize">>
        /\ ~Printed(AfterLine)
        /\ \A p \in Paths \ {Src} : fs[p] = before[p]

\* the run ended at the save with the original gone and no valid image in
\* its place
C9_Witness ==
    /\ failedAt = "save"
    /\ pc = "failed"
    /\ before[Src].data = "ok"
    /\ fs[Src] # before[Src]
    /\ ~(fs[Src].kind = "image" /\ fs[Src].data = "ok")

C10_Untouched ==
    (pc \in {"open", "printBefore", "resize", "save"}
       \/ failedAt \in {"open", "printBefore", "resize"})
    => fs[Src] = before[Src]

\* C10: until the save executes the file is as it was when the run started,
\* in particular in every run that aborts at the open, at the Before print or
\* at the resize; and only the save statement changes the file
C10_OnlySave == [](C10_Untouched) /\ [][fs' # fs => pc = "save"]_vars

\* a source whose damaged pixel data only surfaces at the resize
C10_Witness ==
    /\ pc = "failed"
    /\ failedAt = "resize"
    /\ before[Src].kind = "image"
    /\ before[Src].data = "bad"
    /\ fs[Src] = before[Src]

====
